---- MODULE Spec2Model ----
(***************************************************************************)
(* MCP code generator: the pipeline orchestrator                           *)
(* (orchestrator/orchestrator_client.py), the tool servers                 *)
(* (mcp_servers/*.py), the front end (gui/gradio_app.py) and the usage     *)
(* ledger (model_tracker.py).                                              *)
(*                                                                         *)
(* Two specifications share the ledger operators:                          *)
(*   Spec        one pipeline run, from the entry point to its outcome;    *)
(*   SpecLedger  record/read calls of independent processes on the shared  *)
(*               usage file, interleaved at the level of file operations.  *)
(*                                                                         *)
(* Text is a sequence of symbols.  A symbol is one character or a run of   *)
(* non-blank characters; " " and "\n" are the whitespace symbols.          *)
(***************************************************************************)
EXTENDS Integers, Sequences, FiniteSets, TLC

(***************************************************************************)
(* Bounds of the model                                                     *)
(***************************************************************************)
\* record calls started in one behaviour of SpecLedger
MaxRecords == 2
\* largest token estimate handed to record in SpecLedger
MaxTokens == 2
\* independent processes sharing the usage file in SpecLedger
NumProcs == 2

(***************************************************************************)
(* Text helpers (Python str methods used by the code)                      *)
(***************************************************************************)
IsSpace(c) == c \in {" ", "\n"}

RECURSIVE LStrip(_)
LStrip(s) ==
    IF s = <<>> THEN <<>>
    ELSE IF IsSpace(Head(s)) THEN LStrip(Tail(s)) ELSE s

RECURSIVE RStrip(_)
RStrip(s) ==
    IF s = <<>> THEN <<>>
    ELSE IF IsSpace(s[Len(s)]) THEN RStrip(SubSeq(s, 1, Len(s) - 1)) ELSE s

\* str.strip()
Strip(s) == RStrip(LStrip(s))

\* `sub in s` on strings
Contains(s, sub) ==
    \E i \in 1..(Len(s) - Len(sub) + 1) : SubSeq(s, i, i + Len(sub) - 1) = sub

\* len(text.split()): the number of maximal runs of non-whitespace symbols
RECURSIVE WordCount(_)
WordCount(s) ==
    IF s = <<>> THEN 0
    ELSE IF IsSpace(Head(s)) THEN WordCount(Tail(s))
    ELSE IF Len(s) = 1 \/ IsSpace(s[2]) THEN 1 + WordCount(Tail(s))
    ELSE WordCount(Tail(s))

Max(a, b) == IF a >= b THEN a ELSE b

\* len(text.split()) without the floor of line 71
EstimateNoFloor(text) == WordCount(text)

_estimate_tokens(text) == Max(WordCount(text), 1)

(***************************************************************************)
(* Usage ledger: model_tracker.py                                          *)
(*                                                                         *)
(* The usage file is [kind, body]: kind "missing" (no file), "garbage"     *)
(* (content json.loads rejects, the empty file included), "list" (valid    *)
(* JSON that is no object) or "object" (a JSON object, body = its members  *)
(* as a set of <<agent, {<<model, stats>>}>>).  In memory a loaded value   *)
(* is [isDict, d]: d maps agent -> model -> stats.                         *)
(***************************************************************************)
AgentNames == {"UnknownAgent", "CodeGenerator", "TestGenerator", "RefinementAgent"}
GEMINI == "gemini-2.5-flash"

EmptyDict == [a \in {} |-> 0]
EmptyUsage == [isDict |-> TRUE, d |-> EmptyDict]
ListUsage == [isDict |-> FALSE, d |-> EmptyDict]
ZeroStats == [numApiCalls |-> 0, totalTokens |-> 0]

MissingFile == [kind |-> "missing", body |-> {}]
GarbageFile == [kind |-> "garbage", body |-> {}]
ListFile == [kind |-> "list", body |-> {}]

\* json.dumps of a dict agent -> model -> stats
json_dumps(d) ==
    [kind |-> "object",
     body |-> {<<a, {<<m, d[a][m]>> : m \in DOMAIN d[a]}>> : a \in DOMAIN d}]

\* json.loads of an object's text
json_loads(body) ==
    [a \in {e[1] : e \in body} |->
        LET members == (CHOOSE e \in body : e[1] = a)[2]
        IN  [m \in {x[1] : x \in members} |->
                (CHOOSE x \in members : x[1] = m)[2]]]

\* _load_usage without its try/except: unparseable content raises
LoadNoCatch(file) ==
    IF file.kind = "missing" THEN [raised |-> FALSE, usage |-> EmptyUsage]
    ELSE IF file.kind = "garbage" THEN [raised |-> TRUE, usage |-> EmptyUsage]
    ELSE IF file.kind = "list" THEN [raised |-> FALSE, usage |-> ListUsage]
    ELSE [raised |-> FALSE,
          usage |-> [isDict |-> TRUE, d |-> json_loads(file.body)]]

\* _load_usage: [raised, usage]
_load_usage(file) ==
    IF file.kind = "missing" THEN [raised |-> FALSE, usage |-> EmptyUsage]
    ELSE IF file.kind = "garbage" THEN [raised |-> FALSE, usage |-> EmptyUsage]
    ELSE IF file.kind = "list" THEN [raised |-> FALSE, usage |-> ListUsage]
    ELSE [raised |-> FALSE,
          usage |-> [isDict |-> TRUE, d |-> json_loads(file.body)]]

\* get_model_usage
get_model_usage(file) == _load_usage(file)

\* lines 127-129 counting the call and its tokens twice
BumpDouble(stats, num_tokens) ==
    [numApiCalls |-> stats.numApiCalls + 2,
     totalTokens |-> stats.totalTokens + num_tokens + num_tokens]

\* lines 127-129 with the increment of numApiCalls left out
BumpNoCall(stats, num_tokens) ==
    [numApiCalls |-> stats.numApiCalls,
     totalTokens |-> stats.totalTokens + num_tokens]

\* lines 127-129 with the new tokens replacing the total
BumpOverwrite(stats, num_tokens) ==
    [numApiCalls |-> stats.numApiCalls + 1, totalTokens |-> num_tokens]

\* model_stats["numApiCalls"] += 1; model_stats["totalTokens"] += int(num_tokens)
Bump(stats, num_tokens) ==
    [numApiCalls |-> stats.numApiCalls + 1,
     totalTokens |-> stats.totalTokens + num_tokens]

\* lines 127-132 bumping every model of the agent, not only model_name
UpdatedDictSpill(d, agent_name, model_name, num_tokens) ==
    LET d1 == IF agent_name \in DOMAIN d THEN d ELSE (agent_name :> EmptyDict) @@ d
    IN  [d1 EXCEPT ![agent_name] =
            [m \in DOMAIN d1[agent_name] \cup {model_name} |->
                Bump(IF m \in DOMAIN d1[agent_name] THEN d1[agent_name][m] ELSE ZeroStats,
                     num_tokens)]]

\* lines 122-132 starting from an empty dict instead of the loaded one
UpdatedDictFresh(d, agent_name, model_name, num_tokens) ==
    (agent_name :>
        (model_name :>
            Bump(IF agent_name \in DOMAIN d /\ model_name \in DOMAIN d[agent_name]
                 THEN d[agent_name][model_name] ELSE ZeroStats,
                 num_tokens)))

\* the dict _update_usage hands to _save_usage (usage is a dict here)
UpdatedDict(d, agent_name, model_name, num_tokens) ==
    LET d1 == IF agent_name \in DOMAIN d THEN d ELSE (agent_name :> EmptyDict) @@ d
        model_stats ==
            IF model_name \in DOMAIN d1[agent_name]
            THEN d1[agent_name][model_name] ELSE ZeroStats
    IN  [d1 EXCEPT ![agent_name] =
            (model_name :> Bump(model_stats, num_tokens)) @@ d1[agent_name]]

\* _update_usage run without interruption: [raised, file]
_update_usage(file, agent_name, model_name, num_tokens) ==
    LET l == _load_usage(file)
    IN  IF l.raised \/ ~l.usage.isDict
        THEN [raised |-> TRUE, file |-> file]
        ELSE [raised |-> FALSE,
              file |-> json_dumps(UpdatedDict(l.usage.d, agent_name, model_name, num_tokens))]

(***************************************************************************)
(* State                                                                   *)
(***************************************************************************)
VARIABLES
    \* the usage file model_usage.json, shared by every process
    store,
    \* SpecLedger: per process, the position inside _update_usage, its
    \* arguments and its local `usage`
    rpc, rargs, rusage,
    \* SpecLedger: what get_model_usage returned in the step just taken
    readResult,
    \* SpecLedger, history: the initial file; per (agent, model) the record
    \* calls started and the sum of their tokens; whether two record calls
    \* ever overlapped; record calls that ended with an exception
    file0, issued, overlap, crashed,
    \* SpecLedger, history: per pair, the largest counters a parseable usage
    \* file has held so far
    peak,
    \* SpecLedger, history: per process, the usage its record call loaded
    rbase,
    \* Spec, front end and run_pipeline: the entry point taken, the text the
    \* caller submitted, where the run stands and how it ended
    entry, submitted, pc, outcome,
    \* Spec, locals of _run_pipeline_async
    description, plan, app_code, tests_code, feedback, zip_path, usage,
    \* Spec, _call_mcp_tool: its position, its arguments, the discovered
    \* catalog and the value the tool sent back
    rtc, req, tools, result,
    \* Spec: every tool-server process and session created so far
    procs, sessions,
    \* Spec, history: the _call_mcp_tool calls made, the raw value each stage
    \* got back, the tool handlers run by the servers, the bundles the
    \* packager built, the reads of the ledger, the exception that ended
    \* the run
    calls, produced, served, bundles, reads, failure,
    \* Spec, history: the protocol steps each _call_mcp_tool call completed,
    \* as [call, step] in the order they happened
    steps

ledgerVars == <<rpc, rargs, rusage, readResult, file0, issued, overlap, crashed, peak,
               rbase>>
pipeVars == <<entry, submitted, pc, outcome, description, plan, app_code, tests_code,
              feedback, zip_path, usage, rtc, req, tools, result, procs, sessions,
              calls, produced, served, bundles, reads, failure, steps>>
vars == <<store, ledgerVars, pipeVars>>

(***************************************************************************)
(* Values of a pipeline run                                                *)
(***************************************************************************)
\* the acceptance marker "OK_TO_USE" (orchestrator_client.py line 148)
OK_TO_USE == <<"OK_", "TO_", "USE">>

\* f"ERROR: {err}" with err = "LLM initialization failed: ..."
ERROR_TEXT == <<"ERROR:", " ", "LLM", " ", "initialization", " ", "failed">>

\* a local that is not bound yet
Absent == <<"<unbound>">>

\* a value a tool call hands back: a str, or an object that is no str
TextValue(t) == [isStr |-> TRUE, txt |-> t]
ListValue(t) == [isStr |-> FALSE, txt |-> t]
NoValue == [isStr |-> FALSE, txt |-> Absent]

\* str(v) of a list holding one text
Repr(t) == <<"['">> \o t \o <<"']">>

Stages == {"plan", "generate", "testgen", "review", "refine"}

refinement_server == "mcp_servers/refinement_server.py"
codegen_server == "mcp_servers/codegen_server.py"
testgen_server == "mcp_servers/testgen_server.py"

\* the @mcp.tool() functions of each server script
ServerTools(server) ==
    IF server = refinement_server THEN {"generate_plan", "review_code", "refine_code"}
    ELSE IF server = codegen_server THEN {"generate_app_code"}
    ELSE {"generate_tests"}

\* the agent_name each tool passes to llm.invoke ("UnknownAgent" by default)
AgentOf(tool_name) ==
    IF tool_name = "generate_app_code" THEN "CodeGenerator"
    ELSE IF tool_name = "generate_tests" THEN "TestGenerator"
    ELSE IF tool_name = "refine_code" THEN "RefinementAgent"
    ELSE "UnknownAgent"

NoRequest == [server |-> "", tool_name |-> "", arguments |-> <<>>]
NoFailure == [kind |-> "none", stage |-> "", phase |-> "", available |-> {}]
NoOutcome == [kind |-> "pending"]
NoBundle == [app |-> Absent, tests |-> Absent, readme |-> Absent]

InitPipeVars ==
    /\ entry = "none"
    /\ submitted = Absent
    /\ pc = "entry"
    /\ outcome = NoOutcome
    /\ description = Absent
    /\ plan = Absent
    /\ app_code = Absent
    /\ tests_code = Absent
    /\ feedback = Absent
    /\ zip_path = NoBundle
    /\ usage = EmptyUsage
    /\ rtc = "idle"
    /\ req = NoRequest
    /\ tools = {}
    /\ result = NoValue
    /\ procs = <<>>
    /\ sessions = <<>>
    /\ calls = <<>>
    /\ produced = [s \in Stages |-> NoValue]
    /\ served = <<>>
    /\ bundles = <<>>
    /\ reads = 0
    /\ failure = NoFailure
    /\ steps = <<>>

(***************************************************************************)
(* SpecLedger: independent processes on the shared usage file              *)
(***************************************************************************)
Procs == 1..NumProcs
\* the (agent, model) pairs record is called with: two models of one agent
\* and a second agent
Pairs == {<<"CodeGenerator", GEMINI>>, <<"CodeGenerator", "gemini-2.5-pro">>,
          <<"TestGenerator", GEMINI>>}
TokenArgs == 1..MaxTokens

NoArgs == [agent_name |-> "", model_name |-> "", num_tokens |-> 0]
NoRead == [returned |-> FALSE, raised |-> FALSE, usage |-> EmptyUsage]

InitFiles == {MissingFile, GarbageFile, ListFile, json_dumps(EmptyDict)}

RECURSIVE SumCalls(_, _)
SumCalls(f, S) ==
    IF S = {} THEN 0
    ELSE LET x == CHOOSE x \in S : TRUE IN f[x].calls + SumCalls(f, S \ {x})

InitLedgerVars ==
    /\ rpc = [p \in Procs |-> "idle"]
    /\ rargs = [p \in Procs |-> NoArgs]
    /\ rusage = [p \in Procs |-> EmptyUsage]
    /\ readResult = NoRead
    /\ issued = [pr \in Pairs |-> [calls |-> 0, tokens |-> 0]]
    /\ overlap = FALSE
    /\ crashed = 0
    /\ peak = [pr \in Pairs |-> [calls |-> 0, tokens |-> 0]]
    /\ rbase = [p \in Procs |-> EmptyUsage]

InitLedger ==
    /\ store \in InitFiles
    /\ file0 = store
    /\ InitLedgerVars
    /\ InitPipeVars

\* the counters a file holds for a pair (zero when it holds none)
Stored(file, pr) ==
    IF file.kind # "object" THEN [calls |-> 0, tokens |-> 0]
    ELSE LET d == json_loads(file.body)
         IN  IF pr[1] \in DOMAIN d /\ pr[2] \in DOMAIN d[pr[1]]
             THEN [calls |-> d[pr[1]][pr[2]].numApiCalls,
                   tokens |-> d[pr[1]][pr[2]].totalTokens]
             ELSE [calls |-> 0, tokens |-> 0]

PeakWith(pk, file) ==
    [pr \in Pairs |-> [calls |-> Max(pk[pr].calls, Stored(file, pr).calls),
                       tokens |-> Max(pk[pr].tokens, Stored(file, pr).tokens)]]

\* line 120: usage = _load_usage()
RecordLoad(p, a, m, t) ==
    /\ rpc[p] = "idle"
    /\ SumCalls(issued, Pairs) < MaxRecords
    /\ rusage' = [rusage EXCEPT ![p] = _load_usage(store).usage]
    /\ rbase' = [rbase EXCEPT ![p] = _load_usage(store).usage]
    /\ rargs' = [rargs EXCEPT ![p] = [agent_name |-> a, model_name |-> m, num_tokens |-> t]]
    /\ rpc' = [rpc EXCEPT ![p] = "loaded"]
    /\ issued' = [issued EXCEPT ![<<a, m>>] =
                    [calls |-> @.calls + 1, tokens |-> @.tokens + t]]
    /\ overlap' = (overlap \/ \E q \in Procs \ {p} : rpc[q] # "idle")
    /\ readResult' = NoRead
    /\ UNCHANGED <<store, file0, crashed, peak>>
    /\ UNCHANGED pipeVars

\* lines 123-124 on a loaded value that is no dict: TypeError, nothing is saved
RecordRaise(p) ==
    /\ rpc[p] = "loaded"
    /\ ~rusage[p].isDict
    /\ rpc' = [rpc EXCEPT ![p] = "idle"]
    /\ rargs' = [rargs EXCEPT ![p] = NoArgs]
    /\ rusage' = [rusage EXCEPT ![p] = EmptyUsage]
    /\ crashed' = crashed + 1
    /\ rbase' = [rbase EXCEPT ![p] = EmptyUsage]
    /\ readResult' = NoRead
    /\ UNCHANGED <<store, file0, issued, overlap, peak>>
    /\ UNCHANGED pipeVars

\* lines 123-133 up to the open() of write_text, which truncates the file
RecordTruncate(p) ==
    /\ rpc[p] = "loaded"
    /\ rusage[p].isDict
    /\ rusage' = [rusage EXCEPT ![p] =
                    [isDict |-> TRUE,
                     d |-> UpdatedDict(rusage[p].d, rargs[p].agent_name,
                                       rargs[p].model_name, rargs[p].num_tokens)]]
    /\ store' = GarbageFile
    /\ rpc' = [rpc EXCEPT ![p] = "truncated"]
    /\ readResult' = NoRead
    /\ UNCHANGED <<rargs, file0, issued, overlap, crashed, peak, rbase>>
    /\ UNCHANGED pipeVars

\* what the file holds after process p wrote `text` at offset 0: the text, or,
\* when another process wrote since p truncated and its text was longer, p's
\* text followed by the tail of the other (unparseable)
WriteOutcomes(file, text) ==
    IF file.kind = "object" THEN {text, GarbageFile} ELSE {text}

\* line 54: the write of write_text, and the return
RecordWrite(p) ==
    /\ rpc[p] = "truncated"
    /\ store' \in WriteOutcomes(store, json_dumps(rusage[p].d))
    /\ rpc' = [rpc EXCEPT ![p] = "idle"]
    /\ rargs' = [rargs EXCEPT ![p] = NoArgs]
    /\ rusage' = [rusage EXCEPT ![p] = EmptyUsage]
    /\ readResult' = NoRead
    /\ peak' = PeakWith(peak, store')
    /\ rbase' = [rbase EXCEPT ![p] = EmptyUsage]
    /\ UNCHANGED <<file0, issued, overlap, crashed>>
    /\ UNCHANGED pipeVars

\* get_model_usage() by any process
Read ==
    /\ readResult' = [returned |-> TRUE,
                      raised |-> get_model_usage(store).raised,
                      usage |-> get_model_usage(store).usage]
    /\ UNCHANGED <<store, rpc, rargs, rusage, file0, issued, overlap, crashed, peak, rbase>>
    /\ UNCHANGED pipeVars

NextLedger ==
    \/ \E p \in Procs, pr \in Pairs, t \in TokenArgs : RecordLoad(p, pr[1], pr[2], t)
    \/ \E p \in Procs : RecordRaise(p)
    \/ \E p \in Procs : RecordTruncate(p)
    \/ \E p \in Procs : RecordWrite(p)
    \/ Read

SpecLedger == InitLedger /\ [][NextLedger]_vars

(***************************************************************************)
(* Spec: one pipeline run                                                  *)
(***************************************************************************)
\* what the caller types: empty, whitespace only, or padded text
Descriptions == {<<>>, <<" ", "\n">>, <<" ", "app", " ">>}

\* the usage file an earlier run may have left
RunFiles == {MissingFile, ListFile, json_dumps(EmptyDict)}

\* the content of the AIMessage the language model returns to each tool
StrContent(t) == [isStr |-> TRUE, text |-> t, parts |-> <<>>]
ListContent(ps) == [isStr |-> FALSE, text |-> <<>>, parts |-> ps]
TextPart(t) == [kind |-> "text_dict", text |-> t]
OtherPart == [kind |-> "other_dict", text |-> <<>>]

LLMContents(tool_name) ==
    IF tool_name = "generate_plan" THEN {StrContent(<<"plan">>)}
    ELSE IF tool_name = "generate_app_code" THEN {StrContent(<<"def", " ", "app">>)}
    ELSE IF tool_name = "generate_tests" THEN {StrContent(<<"def", " ", "test">>)}
    ELSE IF tool_name = "review_code"
    THEN {StrContent(OK_TO_USE),
          StrContent(<<"fine", " ">> \o OK_TO_USE \o <<"\n">>),
          StrContent(<<"OK_", "TO_">>),
          StrContent(<<"bad">>),
          ListContent(<<TextPart(<<"OK_">>), TextPart(<<"TO_", "USE">>)>>)}
    ELSE {StrContent(<<>>),
          StrContent(<<" ", "\n">>),
          StrContent(<<"def", " ", "app2">>),
          StrContent(<<"\n", "app2", " ">>),
          ListContent(<<TextPart(<<" ">>), OtherPart, TextPart(<<>>)>>)}

\* "\n".join(parts) over the parts _extract_text keeps
RECURSIVE JoinParts(_)
JoinParts(ps) ==
    IF ps = <<>> THEN <<>>
    ELSE IF Len(ps) = 1 THEN Head(ps)
    ELSE Head(ps) \o <<"\n">> \o JoinParts(Tail(ps))

KeptParts(ps) == SelectSeq(ps, LAMBDA part : part.kind # "other_dict")

_extract_text(content) ==
    IF content.isStr THEN content.text
    ELSE JoinParts([i \in DOMAIN KeptParts(content.parts) |-> KeptParts(content.parts)[i].text])

\* a result that is no str replaced by the empty text
CoerceEmpty(v) == IF v.isStr THEN v.txt ELSE <<>>

\* if not isinstance(x, str): x = str(x)
Coerce(v) == IF v.isStr THEN v.txt ELSE Repr(v.txt)

\* line 148 with the test inverted
NeedsRefineInverted(fb) == Contains(fb, OK_TO_USE)

\* line 148: "OK_TO_USE" not in feedback
NeedsRefine(fb) == ~Contains(fb, OK_TO_USE)

\* line 155 without the isinstance test
AcceptNonBlank(v) == Strip(v.txt) # <<>>

\* line 155 without the .strip() test
AcceptAnyStr(v) == v.isStr

\* line 155: isinstance(refined_code, str) and refined_code.strip()
AcceptRefined(v) == v.isStr /\ Strip(v.txt) # <<>>

\* the arguments of each stage's tool call
PlanArgs == [description |-> description]
GenerateArgs == [description |-> description, plan |-> plan]
\* generate_tests handed the plan in place of the app code
TestgenArgsPlan == [app_code |-> plan, description |-> description]
TestgenArgs == [app_code |-> app_code, description |-> description]
ReviewArgs == [app_code |-> app_code, tests |-> tests_code]
RefineArgs == [app_code |-> app_code, feedback |-> feedback]

StageRequest(stage) ==
    IF stage = "plan"
    THEN [server |-> refinement_server, tool_name |-> "generate_plan", arguments |-> PlanArgs]
    ELSE IF stage = "generate"
    THEN [server |-> codegen_server, tool_name |-> "generate_app_code", arguments |-> GenerateArgs]
    ELSE IF stage = "testgen"
    THEN [server |-> testgen_server, tool_name |-> "generate_tests", arguments |-> TestgenArgs]
    ELSE IF stage = "review"
    THEN [server |-> refinement_server, tool_name |-> "review_code", arguments |-> ReviewArgs]
    ELSE [server |-> refinement_server, tool_name |-> "refine_code", arguments |-> RefineArgs]

\* a stage whose call raised tried again, without end
OnRaiseRetry(stage) == stage

\* an exception of _call_mcp_tool swallowed: the run goes on with the next stage
OnRaiseContinue(stage) ==
    IF stage = "plan" THEN "generate"
    ELSE IF stage = "generate" THEN "testgen"
    ELSE IF stage = "testgen" THEN "review"
    ELSE "package"

\* no try/except in _run_pipeline_async: an exception of a stage ends the run
OnRaise(stage) == "aborted"

\* the context managers leaving the process and the session as they are
ExitNever(xs, raised) == xs

\* the context managers cleaning up only when the body returned
ExitOnReturnOnly(xs, raised) ==
    IF raised THEN xs ELSE [xs EXCEPT ![Len(xs)] = "closed"]

\* `async with stdio_client(...)` / `async with ClientSession(...)` left, by
\* return or by exception: the process just spawned, or its session, is closed
ContextExit(xs, raised) == [xs EXCEPT ![Len(xs)] = "closed"]

\* create_zip_from_strings: app.py, test_app.py and the README text
create_zip_from_strings(a, t, d) == [app |-> a, tests |-> t, readme |-> Strip(d)]

\* the client going from the spawn straight to the catalog request
RtcAfterSkip(step) ==
    IF step = "spawn" THEN "initialized"
    ELSE IF step = "initialize" THEN "initialized"
    ELSE IF step = "load_tools" THEN "discovered"
    ELSE "invoked"

\* where _call_mcp_tool stands once the awaited step has completed
RtcAfter(step) ==
    IF step = "spawn" THEN "connected"
    ELSE IF step = "initialize" THEN "initialized"
    ELSE IF step = "load_tools" THEN "discovered"
    ELSE "invoked"

\* the lookup of lines 69-73 accepting any non-empty catalog
FoundAny(catalog, tool_name) == catalog # {}

\* lines 69-73: the loop `if tool.name == tool_name` finds a tool
FoundTool(catalog, tool_name) == tool_name \in catalog

\* the packager handed the generate stage's output whatever refine returned
PackageArgsStale == <<Coerce(produced["generate"]), tests_code, description>>

\* line 159: the arguments of create_zip_from_strings
PackageArgs == <<app_code, tests_code, description>>

\* the GUI handler without its try/except: the raw exception reaches the UI
FailureOutcomeRaw == [kind |-> "exception"]

\* the exception the caller of the run sees
FailureOutcome ==
    IF entry = "gui" THEN [kind |-> "generation_failed"] ELSE [kind |-> "exception"]

unchangedLocals == UNCHANGED <<description, plan, app_code, tests_code, feedback, zip_path, usage>>
unchangedHistory == UNCHANGED <<produced, bundles, reads, steps>>

Init ==
    /\ store \in RunFiles
    /\ file0 = store
    /\ InitLedgerVars
    /\ InitPipeVars

\* gui/gradio_app.py generate_app_and_tests, up to the call of run_pipeline
GuiSubmit(d) ==
    /\ pc = "entry"
    /\ entry' = "gui"
    /\ submitted' = d
    /\ IF d = <<>> \/ Strip(d) = <<>>
       THEN /\ pc' = "rejected"
            /\ outcome' = [kind |-> "validation_error"]
            /\ UNCHANGED description
       ELSE /\ pc' = "plan"
            /\ description' = Strip(d)
            /\ UNCHANGED outcome
    /\ UNCHANGED <<plan, app_code, tests_code, feedback, zip_path, usage>>
    /\ UNCHANGED <<rtc, req, tools, result, procs, sessions, calls, served, failure>>
    /\ unchangedHistory
    /\ UNCHANGED <<store, ledgerVars>>

\* run_pipeline(description) called by any other caller
RunPipeline(d) ==
    /\ pc = "entry"
    /\ entry' = "run_pipeline"
    /\ submitted' = d
    /\ pc' = "plan"
    /\ description' = d
    /\ UNCHANGED <<outcome, plan, app_code, tests_code, feedback, zip_path, usage>>
    /\ UNCHANGED <<rtc, req, tools, result, procs, sessions, calls, served, failure>>
    /\ unchangedHistory
    /\ UNCHANGED <<store, ledgerVars>>

\* an exception leaves _call_mcp_tool and _run_pipeline_async
Raise(kind, phase, available) ==
    /\ failure' = [kind |-> kind, stage |-> pc, phase |-> phase, available |-> available]
    /\ pc' = OnRaise(pc)
    /\ outcome' = FailureOutcome
    /\ rtc' = "idle"
    /\ result' = NoValue
    /\ UNCHANGED <<entry, submitted>>
    /\ unchangedLocals
    /\ unchangedHistory
    /\ UNCHANGED ledgerVars

\* lines 55-62: the stage calls _call_mcp_tool; the server process starts and
\* the session object is created
Spawn ==
    /\ pc \in Stages
    /\ rtc = "idle"
    /\ req' = StageRequest(pc)
    /\ calls' = Append(calls, [stage |-> pc] @@ StageRequest(pc))
    /\ procs' = Append(procs, "running")
    /\ sessions' = Append(sessions, "open")
    /\ rtc' = RtcAfter("spawn")
    /\ steps' = Append(steps, [call |-> Len(calls) + 1, step |-> "spawn"])
    /\ UNCHANGED <<entry, submitted, pc, outcome, tools, result, served, failure, store>>
    /\ unchangedLocals
    /\ UNCHANGED <<produced, bundles, reads>>
    /\ UNCHANGED ledgerVars

\* line 61: the process fails to start
SpawnFails ==
    /\ pc \in Stages
    /\ rtc = "idle"
    /\ req' = StageRequest(pc)
    /\ calls' = Append(calls, [stage |-> pc] @@ StageRequest(pc))
    /\ Raise("TransportError", "spawn", {})
    /\ UNCHANGED <<tools, procs, sessions, served, store>>

\* line 64: await session.initialize()
Initialize ==
    /\ rtc = "connected"
    /\ rtc' = RtcAfter("initialize")
    /\ steps' = Append(steps, [call |-> Len(calls), step |-> "initialize"])
    /\ UNCHANGED <<entry, submitted, pc, outcome, req, tools, result, procs, sessions,
                   calls, served, failure, store>>
    /\ unchangedLocals
    /\ UNCHANGED <<produced, bundles, reads>>
    /\ UNCHANGED ledgerVars

\* line 66: tools = await load_mcp_tools(session); the catalog is what the
\* spawned process reports: the script's tools, or a catalog without the tool
LoadTools(catalog) ==
    /\ rtc = "initialized"
    /\ tools' = catalog
    /\ rtc' = RtcAfter("load_tools")
    /\ steps' = Append(steps, [call |-> Len(calls), step |-> "load_tools"])
    /\ UNCHANGED <<entry, submitted, pc, outcome, req, result, procs, sessions,
                   calls, served, failure, store>>
    /\ unchangedLocals
    /\ UNCHANGED <<produced, bundles, reads>>
    /\ UNCHANGED ledgerVars

\* lines 69-84, tool found: the invocation request is sent
Invoke ==
    /\ rtc = "discovered"
    /\ FoundTool(tools, req.tool_name)
    /\ rtc' = RtcAfter("invoke")
    /\ steps' = Append(steps, [call |-> Len(calls), step |-> "invoke"])
    /\ UNCHANGED <<entry, submitted, pc, outcome, req, tools, result, procs, sessions,
                   calls, served, failure, store>>
    /\ unchangedLocals
    /\ UNCHANGED <<produced, bundles, reads>>
    /\ UNCHANGED ledgerVars

\* lines 76-81, tool not found: ValueError naming the available tools
ToolNotFound ==
    /\ rtc = "discovered"
    /\ ~FoundTool(tools, req.tool_name)
    /\ Raise("ToolNotFound", "lookup", tools)
    /\ procs' = ContextExit(procs, TRUE)
    /\ sessions' = ContextExit(sessions, TRUE)
    /\ UNCHANGED <<req, tools, calls, served, store>>

\* handshake times out, stream closes: the awaited call raises
TransportFails ==
    /\ rtc \in {"connected", "initialized", "invoked", "responded"}
    /\ Raise("TransportError",
             IF rtc = "connected" THEN "handshake"
             ELSE IF rtc = "initialized" THEN "discovery" ELSE "invocation",
             {})
    /\ procs' = ContextExit(procs, TRUE)
    /\ sessions' = ContextExit(sessions, TRUE)
    /\ UNCHANGED <<req, tools, calls, served, store>>

\* the record made although the language model gave no response
StoreRecordedAnyway(file, tool_name) ==
    _update_usage(file, AgentOf(tool_name), GEMINI, 1).file

\* the usage file after a tool call whose language model gave no response:
\* the tool returned at its `if err:` line, or super().invoke raised at line
\* 177 before _update_usage (line 180) was reached
StoreAfterFailure(file, tool_name) == file

\* the tool function run by the server: _get_llm fails, and the tool returns
\* the error text
ToolInitFails(asStr) ==
    /\ rtc = "invoked"
    /\ served' = Append(served, [tool_name |-> req.tool_name, llm |-> "init_failed",
                                 recorded |-> FALSE])
    /\ result' = [isStr |-> asStr, txt |-> ERROR_TEXT]
    /\ rtc' = "responded"
    /\ store' = StoreAfterFailure(store, req.tool_name)
    /\ UNCHANGED <<entry, submitted, pc, outcome, req, tools, procs, sessions,
                   calls, failure>>
    /\ unchangedLocals
    /\ unchangedHistory
    /\ UNCHANGED ledgerVars

\* the tool function: super().invoke raises (TrackingChatGoogleGenerativeAI.invoke
\* line 177); the tool call ends in error and ainvoke raises in the client
ToolLlmRaises ==
    /\ rtc = "invoked"
    /\ served' = Append(served, [tool_name |-> req.tool_name, llm |-> "raised",
                                 recorded |-> FALSE])
    /\ Raise("ToolError", "invocation", {})
    /\ procs' = ContextExit(procs, TRUE)
    /\ sessions' = ContextExit(sessions, TRUE)
    /\ store' = StoreAfterFailure(store, req.tool_name)
    /\ UNCHANGED <<req, tools, calls>>

\* the tool function: the model answers, invoke records the usage
\* (lines 177-181) and the tool returns the extracted text
ToolReturns(content, asStr) ==
    LET text == _extract_text(content)
        upd == _update_usage(store, AgentOf(req.tool_name), GEMINI, _estimate_tokens(text))
    IN  /\ rtc = "invoked"
        /\ ~upd.raised
        /\ store' = upd.file
        /\ served' = Append(served, [tool_name |-> req.tool_name, llm |-> "returned",
                                     recorded |-> TRUE])
        /\ result' = [isStr |-> asStr, txt |-> text]
        /\ rtc' = "responded"
        /\ UNCHANGED <<entry, submitted, pc, outcome, req, tools, procs, sessions,
                       calls, failure>>
        /\ unchangedLocals
        /\ unchangedHistory
        /\ UNCHANGED ledgerVars

\* the tool function: the model answers but _update_usage raises on a usage
\* file that holds no JSON object (whatever the token estimate); the tool
\* call ends in error
ToolRecordRaises ==
    /\ rtc = "invoked"
    /\ _update_usage(store, AgentOf(req.tool_name), GEMINI, 1).raised
    /\ served' = Append(served, [tool_name |-> req.tool_name, llm |-> "returned",
                                 recorded |-> FALSE])
    /\ Raise("ToolError", "invocation", {})
    /\ procs' = ContextExit(procs, TRUE)
    /\ sessions' = ContextExit(sessions, TRUE)
    /\ UNCHANGED <<req, tools, calls, store>>

\* the tests generated again once refine has returned
AfterStageRetest(stage, fb) ==
    IF stage = "plan" THEN "generate"
    ELSE IF stage = "generate" THEN "testgen"
    ELSE IF stage = "testgen" THEN "review"
    ELSE IF stage = "review" THEN (IF NeedsRefine(fb) THEN "refine" ELSE "package")
    ELSE IF stage = "refine" THEN "testgen"
    ELSE "package"

\* the run given up when the review text starts with the error marker
AfterStageAbort(stage, fb) ==
    IF stage = "plan" THEN "generate"
    ELSE IF stage = "generate" THEN "testgen"
    ELSE IF stage = "testgen" THEN "review"
    ELSE IF stage = "review"
    THEN (IF fb # <<>> /\ fb[1] = "ERROR:" THEN "aborted"
          ELSE IF NeedsRefine(fb) THEN "refine" ELSE "package")
    ELSE "package"

\* the stage sequence with the testgen stage left out
AfterStageSkip(stage, fb) ==
    IF stage = "plan" THEN "generate"
    ELSE IF stage = "generate" THEN "review"
    ELSE IF stage = "review" THEN (IF NeedsRefine(fb) THEN "refine" ELSE "package")
    ELSE "package"

\* the stage that follows `stage` once its result is bound
AfterStage(stage, fb) ==
    IF stage = "plan" THEN "generate"
    ELSE IF stage = "generate" THEN "testgen"
    ELSE IF stage = "testgen" THEN "review"
    ELSE IF stage = "review" THEN (IF NeedsRefine(fb) THEN "refine" ELSE "package")
    ELSE "package"

\* line 85 and the lines after the await of the stage: _call_mcp_tool
\* returns, both contexts are left, the stage binds its local
Return ==
    /\ rtc = "responded"
    /\ procs' = ContextExit(procs, FALSE)
    /\ sessions' = ContextExit(sessions, FALSE)
    /\ rtc' = "idle"
    /\ produced' = [produced EXCEPT ![pc] = result]
    /\ plan' = IF pc = "plan" THEN Coerce(result) ELSE plan
    /\ app_code' = IF pc = "generate" THEN Coerce(result)
                   ELSE IF pc = "refine" /\ AcceptRefined(result) THEN result.txt
                   ELSE app_code
    /\ tests_code' = IF pc = "testgen" THEN Coerce(result) ELSE tests_code
    /\ feedback' = IF pc = "review" THEN Coerce(result) ELSE feedback
    /\ pc' = AfterStage(pc, feedback')
    /\ result' = NoValue
    /\ UNCHANGED <<entry, submitted, outcome, description, zip_path, usage, req, tools,
                   calls, served, bundles, reads, failure, steps, store>>
    /\ UNCHANGED ledgerVars

\* line 159: zip_path = create_zip_from_strings(app_code, tests_code, description)
Package ==
    /\ pc = "package"
    /\ zip_path' = create_zip_from_strings(PackageArgs[1], PackageArgs[2], PackageArgs[3])
    /\ bundles' = Append(bundles, zip_path')
    /\ pc' = "read"
    /\ UNCHANGED <<entry, submitted, outcome, description, plan, app_code, tests_code,
                   feedback, usage, rtc, req, tools, result, procs, sessions, calls,
                   produced, served, reads, failure, steps, store>>
    /\ UNCHANGED ledgerVars

\* lines 162-164: usage = get_model_usage(); return str(zip_path), usage
Finish ==
    /\ pc = "read"
    /\ usage' = get_model_usage(store).usage
    /\ reads' = reads + 1
    /\ outcome' = [kind |-> "returned"]
    /\ pc' = "done"
    /\ UNCHANGED <<entry, submitted, description, plan, app_code, tests_code,
                   feedback, zip_path, rtc, req, tools, result, procs, sessions, calls,
                   produced, served, bundles, failure, steps, store>>
    /\ UNCHANGED ledgerVars

Next ==
    \/ \E d \in Descriptions : GuiSubmit(d)
    \/ \E d \in Descriptions : RunPipeline(d)
    \/ Spawn
    \/ SpawnFails
    \/ Initialize
    \/ \E catalog \in {ServerTools(req.server), ServerTools(req.server) \ {req.tool_name}} :
            LoadTools(catalog)
    \/ Invoke
    \/ ToolNotFound
    \/ TransportFails
    \/ \E asStr \in BOOLEAN : ToolInitFails(asStr)
    \/ ToolLlmRaises
    \/ \E content \in LLMContents(req.tool_name), asStr \in BOOLEAN : ToolReturns(content, asStr)
    \/ ToolRecordRaises
    \/ Return
    \/ Package
    \/ Finish

Spec == Init /\ [][Next]_vars

\* asyncio runs the coroutine of run_pipeline on: each await resumes when the
\* awaited transport or tool call has returned or failed
Fairness == WF_vars(Next)

SpecLive == Init /\ [][Next]_vars /\ Fairness

(***************************************************************************)
(* Properties                                                              *)
(***************************************************************************)
CallsOf(stage) == Len(SelectSeq(calls, LAMBDA c : c.stage = stage))

AllClosed(xs) == \A i \in DOMAIN xs : xs[i] = "closed"

AllIdle == \A p \in Procs : rpc[p] = "idle"

\* the run started on a usage file that holds no counter
StartedEmpty == file0.kind \in {"missing", "garbage"} \/ file0 = json_dumps(EmptyDict)

\* the (agent, model) pairs a dict holds a counter record for
RecordsOf(d) == UNION {{<<a, m>> : m \in DOMAIN d[a]} : a \in DOMAIN d}

\* C1: once the review stage has bound review_feedback, the refine tool has
\* been called 0 times if the feedback contains the acceptance marker, and
\* exactly once if it does not (the call being the very next step of the run).
C1_RefineZeroOrOnce ==
    feedback # Absent =>
        IF Contains(feedback, OK_TO_USE)
        THEN CallsOf("refine") = 0
        ELSE CallsOf("refine") = (IF pc = "refine" /\ rtc = "idle" THEN 0 ELSE 1)

C1_Witness ==
    /\ pc = "done"
    /\ feedback = <<"OK_", "TO_">>
    /\ CallsOf("refine") = 1

\* C2: when a stage's _call_mcp_tool fails with ToolNotFound or
\* TransportError the run is aborted: the failing call is the last call made,
\* nothing was packaged, the ledger was not read and the caller gets a
\* failure, not (bundle, usage).
C2_FailureAborts ==
    failure.kind \in {"ToolNotFound", "TransportError"} =>
        /\ pc = "aborted"
        /\ calls[Len(calls)].stage = failure.stage
        /\ bundles = <<>>
        /\ zip_path = NoBundle
        /\ reads = 0
        /\ outcome.kind \in {"generation_failed", "exception"}

C2_Witness ==
    /\ failure.kind = "ToolNotFound"
    /\ failure.stage = "testgen"
    /\ pc = "aborted"
    /\ Len(calls) = 3

\* C3: from an empty or missing usage file, after record calls that never
\* overlapped, a read() made while no call is in progress reports for every
\* pair numApiCalls = the number of its record calls and totalTokens = the
\* sum of their tokens (and no record for a pair never recorded).
C3_SequentialRecords ==
    (StartedEmpty /\ ~overlap /\ AllIdle /\ readResult.returned) =>
        /\ ~readResult.raised
        /\ readResult.usage.isDict
        /\ \A pr \in Pairs :
            IF issued[pr].calls = 0
            THEN pr \notin RecordsOf(readResult.usage.d)
            ELSE /\ pr \in RecordsOf(readResult.usage.d)
                 /\ readResult.usage.d[pr[1]][pr[2]] =
                        [numApiCalls |-> issued[pr].calls,
                         totalTokens |-> issued[pr].tokens]

C3_Witness ==
    /\ file0.kind = "missing"
    /\ ~overlap
    /\ AllIdle
    /\ readResult.returned
    /\ issued[<<"CodeGenerator", GEMINI>>] = [calls |-> 2, tokens |-> 3]
    /\ readResult.usage.d["CodeGenerator"][GEMINI].numApiCalls = 2

\* C4: read() on a usage file that is missing or cannot be parsed returns the
\* empty ledger and does not raise.
C4_CorruptReadsEmpty ==
    (readResult.returned /\ store.kind \in {"missing", "garbage"}) =>
        /\ ~readResult.raised
        /\ readResult.usage = EmptyUsage

C4_Witness ==
    /\ readResult.returned
    /\ store.kind = "garbage"
    /\ file0.kind = "object"
    /\ readResult.usage = EmptyUsage

\* C5 (as claimed): a run that ends successfully, started on an empty ledger,
\* whose review text contains the acceptance marker and whose four language
\* model requests all returned, reads a ledger of exactly 4 counter records,
\* each with numApiCalls = 1.
C5_FourRecordsOfOne ==
    (/\ pc = "done"
     /\ StartedEmpty
     /\ Contains(feedback, OK_TO_USE)
     /\ Len(served) = 4
     /\ \A i \in DOMAIN served : served[i].recorded) =>
        /\ Cardinality(RecordsOf(usage.d)) = 4
        /\ \A pr \in RecordsOf(usage.d) : usage.d[pr[1]][pr[2]].numApiCalls = 1

\* C6 (as claimed): whatever the entry point, a submitted description that is
\* empty or whitespace only never leads to a tool-server process being spawned.
C6_BlankNeverSpawns ==
    (submitted # Absent /\ Strip(submitted) = <<>>) => (procs = <<>> /\ calls = <<>>)

\* C7: every call of the test-generation tool comes right after the call of
\* the generate stage, once that stage has completed, and its app_code
\* argument is the text the generate stage bound (also when refinement later
\* replaces app_code).
C7_TestgenGetsGeneratedCode ==
    \A i \in DOMAIN calls :
        calls[i].stage = "testgen" =>
            /\ i > 1
            /\ calls[i - 1].stage = "generate"
            /\ produced["generate"] # NoValue
            /\ calls[i].arguments.app_code = Coerce(produced["generate"])

C7_Witness ==
    /\ pc = "done"
    /\ CallsOf("testgen") = 1
    /\ produced["generate"] = ListValue(<<"def", " ", "app">>)
    /\ app_code = <<"def", " ", "app2">>

\* C8: when the refine stage returned a text that is empty or whitespace
\* only, the run goes on without a failure and app_code, as bound and as
\* packaged, is the text the generate stage bound.
C8_BlankRefinementRejected ==
    (/\ produced["refine"] # NoValue
     /\ produced["refine"].isStr
     /\ Strip(produced["refine"].txt) = <<>>) =>
        /\ pc \in {"package", "read", "done"}
        /\ failure = NoFailure
        /\ app_code = Coerce(produced["generate"])
        /\ \A i \in DOMAIN bundles : bundles[i].app = Coerce(produced["generate"])

C8_Witness ==
    /\ pc = "done"
    /\ produced["refine"] = TextValue(<<" ", "\n">>)
    /\ bundles = <<[app |-> <<"def", " ", "app">>, tests |-> <<"def", " ", "test">>,
                    readme |-> <<"app">>]>>

\* C9: whenever no _call_mcp_tool call is in progress, every process and
\* every session the calls so far created is closed, whichever way each call
\* ended (result, tool not found, transport failure, tool error).
C9_NoLeak ==
    rtc = "idle" => (AllClosed(procs) /\ AllClosed(sessions) /\ Len(procs) = Len(sessions))

C9_Witness ==
    /\ failure.kind = "TransportError"
    /\ failure.phase = "discovery"
    /\ Len(procs) = 3
    /\ rtc = "idle"
    /\ AllClosed(procs)

\* C10: after two record calls for the same pair, started on an empty ledger,
\* have both completed, the file holds both increments, or only one of them,
\* or is unparseable; anything less than both happens only when the two
\* calls overlapped.  The witness is the lost update.
C10_TwoRecords ==
    \A pr \in Pairs :
        (/\ StartedEmpty
         /\ AllIdle
         /\ issued[pr].calls = 2
         /\ SumCalls(issued, Pairs) = 2) =>
            \/ store.kind = "garbage" /\ overlap
            \/ /\ store.kind = "object"
               /\ pr \in RecordsOf(json_loads(store.body))
               /\ LET stats == json_loads(store.body)[pr[1]][pr[2]]
                  IN  \/ stats = [numApiCalls |-> 2, totalTokens |-> issued[pr].tokens]
                      \/ /\ stats.numApiCalls = 1
                         /\ stats.totalTokens \in TokenArgs
                         /\ stats.totalTokens < issued[pr].tokens
                         /\ overlap

C10_Witness ==
    /\ file0 = json_dumps(EmptyDict)
    /\ AllIdle
    /\ issued[<<"CodeGenerator", GEMINI>>] = [calls |-> 2, tokens |-> 3]
    /\ store = json_dumps(("CodeGenerator" :> (GEMINI :> [numApiCalls |-> 1, totalTokens |-> 2])))

\* every counter the file holds is at least the largest value a parseable
\* file ever held for its pair
AtPeak ==
    \A pr \in Pairs :
        /\ Stored(store, pr).calls >= peak[pr].calls
        /\ Stored(store, pr).tokens >= peak[pr].tokens

\* C11 (as claimed): under any interleaving of record calls, whenever the
\* usage file parses, every pair's stored numApiCalls and totalTokens are at
\* least what any earlier file held: no counter shrinks, no record disappears.
C11_NeverDecreases == store.kind = "object" => AtPeak

\* C11 (amended): as long as no two record calls have overlapped, whenever
\* the usage file parses every pair's stored counters are at least what any
\* earlier file held.
C11_SequentialNeverDecreases == (~overlap /\ store.kind = "object") => AtPeak

C11_Witness ==
    /\ ~overlap
    /\ AllIdle
    /\ Stored(store, <<"CodeGenerator", GEMINI>>).calls = 1
    /\ Stored(store, <<"TestGenerator", GEMINI>>).calls = 1
    /\ peak[<<"CodeGenerator", GEMINI>>].calls = 1

\* the protocol steps completed so far by the i-th call of _call_mcp_tool
StepsOf(i) == SelectSeq(steps, LAMBDA s : s.call = i)

InvokesOf(i) == Len(SelectSeq(steps, LAMBDA s : s.call = i /\ s.step = "invoke"))

\* str(v) of a tool result, written out
StrOf(v) == IF v.isStr THEN v.txt ELSE <<"['">> \o v.txt \o <<"']">>

Bound(stage) == produced[stage] # NoValue

\* C12: when the requested tool name is not in the discovered catalog the
\* call fails with a tool-not-found error that carries exactly the names of
\* the catalog, and no invocation request is sent: the server runs no tool
\* function for that call, and an invocation request is only ever out for a
\* tool name the catalog holds.
C12_NotFoundNoInvocation ==
    /\ rtc \in {"invoked", "responded"} => req.tool_name \in tools
    /\ (rtc = "idle" /\ Len(calls) > 0 /\ InvokesOf(Len(calls)) > 0) =>
            req.tool_name \in tools
    /\ failure.kind = "ToolNotFound" =>
            /\ req.tool_name \notin tools
            /\ failure.available = tools
            /\ failure.phase = "lookup"
            /\ InvokesOf(Len(calls)) = 0
            /\ Len(served) = Len(calls) - 1
            /\ pc = "aborted"

C12_Witness ==
    /\ failure.kind = "ToolNotFound"
    /\ failure.stage = "refine"
    /\ failure.available = {"generate_plan", "review_code"}
    /\ InvokesOf(Len(calls)) = 0

\* C13 (as claimed): for each of the five stages, a tool result that is not
\* text is turned into text with str() and becomes the stage's output; for
\* refine the output is the app_code handed to the packager.
C13_EveryStageCoerced ==
    /\ (Bound("plan") /\ ~produced["plan"].isStr) => plan = StrOf(produced["plan"])
    /\ (Bound("generate") /\ ~produced["generate"].isStr /\ ~Bound("refine")) =>
            app_code = StrOf(produced["generate"])
    /\ (Bound("testgen") /\ ~produced["testgen"].isStr) =>
            tests_code = StrOf(produced["testgen"])
    /\ (Bound("review") /\ ~produced["review"].isStr) =>
            feedback = StrOf(produced["review"])
    /\ (Bound("refine") /\ ~produced["refine"].isStr) =>
            app_code = StrOf(produced["refine"])

\* C13 (amended): for plan, generate, testgen and review a tool result that
\* is not text is turned into text with str() and becomes the stage's output;
\* a refine result that is not text is discarded and app_code keeps the
\* generate stage's output.
C13_FourStagesCoerced ==
    /\ (Bound("plan") /\ ~produced["plan"].isStr) => plan = StrOf(produced["plan"])
    /\ (Bound("generate") /\ ~produced["generate"].isStr /\ ~Bound("refine")) =>
            app_code = StrOf(produced["generate"])
    /\ (Bound("testgen") /\ ~produced["testgen"].isStr) =>
            tests_code = StrOf(produced["testgen"])
    /\ (Bound("review") /\ ~produced["review"].isStr) =>
            feedback = StrOf(produced["review"])
    /\ (Bound("refine") /\ ~produced["refine"].isStr) =>
            app_code = StrOf(produced["generate"])

C13_Witness ==
    /\ pc = "done"
    /\ ~produced["generate"].isStr
    /\ Bound("refine")
    /\ ~produced["refine"].isStr
    /\ produced["refine"].txt = <<"def", " ", "app2">>
    /\ bundles[1].app = <<"['", "def", " ", "app", "']">>

\* C14 (as claimed): when the language-model client cannot be created or the
\* language-model request raises inside a tool, the orchestrator's call does
\* not fail: the run is not aborted by a tool error.
C14_LlmFailureNeverAborts ==
    (Len(served) > 0 /\ served[Len(served)].llm \in {"init_failed", "raised"}) =>
        failure.kind # "ToolError"

StageOrder == <<"plan", "generate", "testgen", "review", "refine">>

\* C15: the tool calls of a run are made in the order plan, generate,
\* testgen, review and then at most one refine, each stage at most once and
\* only after the previous stage's result is bound; each call's arguments
\* are the earlier stages' outputs; packaging starts only after review (and
\* refine, when it was called) has returned.
C15_FixedOrder ==
    /\ Len(calls) <= 5
    /\ \A i \in 1..Len(calls) :
        /\ calls[i].stage = StageOrder[i]
        /\ i > 1 => Bound(StageOrder[i - 1])
    /\ \A st \in Stages : CallsOf(st) <= 1
    /\ Len(calls) >= 1 => calls[1].arguments = [description |-> description]
    /\ Len(calls) >= 2 =>
            calls[2].arguments = [description |-> description,
                                  plan |-> StrOf(produced["plan"])]
    /\ Len(calls) >= 3 =>
            calls[3].arguments = [app_code |-> StrOf(produced["generate"]),
                                  description |-> description]
    /\ Len(calls) >= 4 =>
            calls[4].arguments = [app_code |-> StrOf(produced["generate"]),
                                  tests |-> StrOf(produced["testgen"])]
    /\ Len(calls) >= 5 =>
            calls[5].arguments = [app_code |-> StrOf(produced["generate"]),
                                  feedback |-> StrOf(produced["review"])]
    /\ pc \in {"package", "read", "done"} =>
            /\ Len(calls) \in {4, 5}
            /\ \A i \in 1..Len(calls) : Bound(StageOrder[i])

C15_Witness ==
    /\ pc = "done"
    /\ Len(calls) = 5
    /\ ~produced["plan"].isStr
    /\ calls[2].arguments.plan = <<"['", "plan", "']">>
    /\ calls[5].arguments.feedback = <<"bad">>

Running(xs) == Cardinality({i \in DOMAIN xs : xs[i] # "closed"})

\* C16: at most one tool-server process (and one session) is alive at any
\* time; every process but the one of the call in progress is closed, so a
\* process is spawned only after the previous one is torn down; every call
\* has its own process and a process receives at most one invocation.
C16_OneProcessAtATime ==
    /\ Running(procs) <= 1
    /\ Running(sessions) <= 1
    /\ Len(procs) = Len(sessions)
    /\ Len(procs) <= Len(calls)
    /\ Len(calls) <= Len(procs) + 1
    /\ \A i \in 1..(Len(procs) - 1) : procs[i] = "closed" /\ sessions[i] = "closed"
    /\ rtc = "idle" => AllClosed(procs) /\ AllClosed(sessions)
    /\ \A i \in 1..Len(calls) : InvokesOf(i) <= 1
    /\ Len(served) <= Len(procs)

C16_Witness ==
    /\ Len(procs) = 5
    /\ Running(procs) = 1
    /\ procs[5] = "running"
    /\ InvokesOf(5) = 1
    /\ Len(served) = 5

ProtocolOrder == <<"spawn", "initialize", "load_tools", "invoke">>

\* C17: within one call of _call_mcp_tool the completed protocol steps are a
\* prefix of spawn, handshake, catalog discovery, invocation, and the lookup
\* precedes the invocation: a request is out only after the handshake and
\* the discovery of the same call, for a name found in the catalog.
C17_ProtocolOrder ==
    /\ \A i \in 1..Len(calls) :
        /\ Len(StepsOf(i)) <= 4
        /\ \A k \in 1..Len(StepsOf(i)) : StepsOf(i)[k].step = ProtocolOrder[k]
    /\ \A k \in 1..Len(steps) : steps[k].call \in 1..Len(calls)
    /\ rtc \in {"invoked", "responded"} =>
            /\ Len(StepsOf(Len(calls))) = 4
            /\ FoundTool(tools, req.tool_name)

C17_Witness ==
    /\ rtc = "invoked"
    /\ Len(calls) = 2
    /\ Len(StepsOf(1)) = 4
    /\ Len(StepsOf(2)) = 4

\* a text result that starts with the error marker
Marker(v) == v # NoValue /\ v.isStr /\ v.txt # <<>> /\ v.txt[1] = "ERROR:"

\* C18: a stage whose tool returned error-marker text has that very text as
\* its output, every later call that takes the output as an argument got it
\* unchanged, the packager gets it unchanged, and the run is only ever
\* aborted by an exception of a stage that did not return.
C18_ErrorTextPassedOn ==
    /\ Marker(produced["plan"]) =>
            /\ plan = produced["plan"].txt
            /\ Len(calls) >= 2 => calls[2].arguments.plan = produced["plan"].txt
    /\ Marker(produced["generate"]) =>
            /\ ~Bound("refine") => app_code = produced["generate"].txt
            /\ \A i \in 3..Len(calls) :
                    calls[i].arguments.app_code = produced["generate"].txt
    /\ Marker(produced["testgen"]) =>
            /\ tests_code = produced["testgen"].txt
            /\ Len(calls) >= 4 => calls[4].arguments.tests = produced["testgen"].txt
            /\ \A b \in 1..Len(bundles) : bundles[b].tests = produced["testgen"].txt
    /\ Marker(produced["review"]) =>
            /\ feedback = produced["review"].txt
            /\ Len(calls) >= 5 => calls[5].arguments.feedback = produced["review"].txt
    /\ Marker(produced["refine"]) =>
            /\ app_code = produced["refine"].txt
            /\ \A b \in 1..Len(bundles) : bundles[b].app = produced["refine"].txt
    /\ pc = "aborted" <=> failure.kind # "none"
    /\ failure.kind # "none" => failure.stage \in Stages /\ ~Bound(failure.stage)

C18_Witness ==
    /\ pc = "done"
    /\ \A st \in Stages : produced[st] = TextValue(ERROR_TEXT)
    /\ calls[5].arguments = [app_code |-> ERROR_TEXT, feedback |-> ERROR_TEXT]
    /\ bundles[1].app = ERROR_TEXT
    /\ bundles[1].tests = ERROR_TEXT

\* a text with at least one symbol that is no whitespace
NonBlankText(v) == v.isStr /\ \E k \in 1..Len(v.txt) : ~IsSpace(v.txt[k])

\* the app_code a run ends with
FinalAppCode ==
    IF NonBlankText(produced["refine"]) THEN produced["refine"].txt
    ELSE StrOf(produced["generate"])

\* C19: the app_code handed to the packager is the refine result when refine
\* returned a text with a non-whitespace symbol, and the generate stage's
\* output in every other case (refine not called, result empty, whitespace
\* only, or no text); no error was raised on the way.
C19_PackagedAppCode ==
    /\ pc = "package" => app_code = FinalAppCode
    /\ \A b \in 1..Len(bundles) : bundles[b].app = FinalAppCode
    /\ (pc = "package" \/ bundles # <<>>) => failure.kind = "none"

C19_Witness ==
    /\ pc = "done"
    /\ produced["refine"] = TextValue(<<"\n", "app2", " ">>)
    /\ produced["generate"] = TextValue(<<"def", " ", "app">>)
    /\ bundles[1].app = <<"\n", "app2", " ">>

\* C20: the packager is called once, after review and (when called) refine
\* have returned, with the final app_code, the tests_code and the
\* description; the usage file is read once, after packaging; a run that
\* returns hands back that bundle and that snapshot.
C20_PackageOnceThenRead ==
    /\ Len(bundles) <= 1
    /\ reads <= Len(bundles)
    /\ pc \in Stages \cup {"entry", "rejected", "aborted", "package"} =>
            bundles = <<>> /\ reads = 0
    /\ pc = "read" => Len(bundles) = 1 /\ reads = 0
    /\ pc = "done" <=> outcome.kind = "returned"
    /\ pc = "done" =>
            /\ Len(bundles) = 1
            /\ reads = 1
            /\ zip_path = bundles[1]
            /\ usage = get_model_usage(store).usage
    /\ bundles # <<>> =>
            /\ Bound("review")
            /\ Len(calls) = 5 => Bound("refine")
            /\ bundles[1] = [app |-> FinalAppCode,
                             tests |-> StrOf(produced["testgen"]),
                             readme |-> Strip(description)]

C20_Witness ==
    /\ pc = "done"
    /\ reads = 1
    /\ Len(bundles) = 1
    /\ zip_path = [app |-> <<"def", " ", "app2">>,
                   tests |-> <<"def", " ", "test">>,
                   readme |-> <<"app">>]
    /\ usage = get_model_usage(store).usage
    /\ store.kind = "object"

\* C21 (as claimed): no record call ends in an exception, whatever the usage
\* file held when the call loaded it (missing, unparseable, or JSON that is
\* no agent -> model -> counters object).
C21_RecordNeverFails == crashed = 0

\* C22: in a run started from the GUI handler, a failure of the run ends in
\* the one "Generation failed" error, with no bundle made and no usage read
\* or returned; values are returned only by a run free of failure whose
\* stages all returned and whose bundle was made.
C22_GuiFailureIsOneError ==
    entry = "gui" =>
        /\ outcome.kind \in {"pending", "validation_error", "generation_failed", "returned"}
        /\ failure.kind # "none" <=> outcome.kind = "generation_failed"
        /\ failure.kind # "none" =>
                /\ pc = "aborted"
                /\ zip_path = NoBundle
                /\ bundles = <<>>
                /\ reads = 0
                /\ usage = EmptyUsage
        /\ outcome.kind = "returned" =>
                /\ pc = "done"
                /\ Len(calls) \in {4, 5}
                /\ \A i \in 1..Len(calls) : Bound(StageOrder[i])
                /\ Len(bundles) = 1
                /\ zip_path = bundles[1]
        /\ zip_path # NoBundle => failure.kind = "none" /\ pc \in {"read", "done"}

C22_Witness ==
    /\ entry = "gui"
    /\ failure.kind = "ToolError"
    /\ failure.stage = "refine"
    /\ Bound("review")
    /\ outcome.kind = "generation_failed"
    /\ zip_path = NoBundle

\* C23: when every awaited call eventually returns or fails, a run that has
\* started its stages ends, in done or in aborted, and it never makes more
\* than 5 tool calls.
C23_RunTerminates ==
    /\ [](Len(calls) <= 5)
    /\ (pc \in Stages) ~> (pc \in {"done", "aborted"})

C23_Witness ==
    /\ pc = "done"
    /\ Len(SelectSeq(steps, LAMBDA s : s.step = "invoke")) = 5
    /\ outcome.kind = "returned"

\* C24: in a run started on a usage file without counters, where the record
\* calls follow one another, every counter record in the file has
\* totalTokens >= numApiCalls >= 1: each record adds one call and a token
\* estimate of at least 1, also for an empty or blank response text.
C24_TokensAtLeastCalls ==
    store.kind = "object" =>
        \A pr \in RecordsOf(json_loads(store.body)) :
            /\ Stored(store, pr).calls >= 1
            /\ Stored(store, pr).tokens >= Stored(store, pr).calls

C24_Witness ==
    /\ produced["refine"] = TextValue(<<>>)
    /\ store.kind = "object"
    /\ Stored(store, <<"RefinementAgent", GEMINI>>) = [calls |-> 1, tokens |-> 1]
    /\ Stored(store, <<"UnknownAgent", GEMINI>>) = [calls |-> 2, tokens |-> 2]

\* C25: generate_tests is called at most once, as the third call, on the
\* generate stage's app_code; tests_code stays its result from then on, the
\* review saw that app_code with those tests, and the bundle pairs those
\* tests with the refined app_code when a refinement was accepted.
C25_TestsFromUnrefinedCode ==
    /\ CallsOf("testgen") <= 1
    /\ \A i \in 1..Len(calls) : calls[i].stage = "testgen" =>
            /\ i = 3
            /\ \A j \in 1..i : calls[j].stage # "refine"
            /\ calls[i].arguments.app_code = StrOf(produced["generate"])
    /\ Bound("testgen") => tests_code = StrOf(produced["testgen"])
    /\ Len(calls) >= 4 =>
            calls[4].arguments = [app_code |-> StrOf(produced["generate"]),
                                  tests |-> StrOf(produced["testgen"])]
    /\ \A b \in 1..Len(bundles) :
            /\ bundles[b].tests = StrOf(produced["testgen"])
            /\ NonBlankText(produced["refine"]) => bundles[b].app = produced["refine"].txt

C25_Witness ==
    /\ pc = "done"
    /\ produced["refine"] = TextValue(<<"def", " ", "app2">>)
    /\ calls[3].arguments.app_code = <<"def", " ", "app">>
    /\ bundles[1].app = <<"def", " ", "app2">>
    /\ bundles[1].tests = <<"def", " ", "test">>

\* the tool calls of the run that made a record for agent a
RecordedFor(a) ==
    Cardinality({i \in 1..Len(served) :
                    served[i].recorded /\ AgentOf(served[i].tool_name) = a})

\* C26: a record is made only by a tool call whose language-model request
\* returned: a call whose client failed to initialise or whose request
\* raised leaves the usage file as it was, so the file holds, per agent, as
\* many calls as tool calls whose request returned, which can be fewer than
\* the tool calls made.
C26_RecordOnlyAfterResponse ==
    /\ \A i \in 1..Len(served) : served[i].recorded => served[i].llm = "returned"
    /\ \A a \in AgentNames : Stored(store, <<a, GEMINI>>).calls = RecordedFor(a)
    /\ (\A a \in AgentNames : RecordedFor(a) = 0) => store = file0

C26_Witness ==
    /\ pc = "done"
    /\ Len(served) = 5
    /\ served[1].llm = "init_failed"
    /\ served[3].llm = "init_failed"
    /\ store.kind = "object"
    /\ Stored(store, <<"UnknownAgent", GEMINI>>).calls = 1
    /\ Stored(store, <<"TestGenerator", GEMINI>>).calls = 0

\* the counters dict d holds for pair pr (zero when it holds none)
StatsIn(d, pr) ==
    IF pr \in RecordsOf(d) THEN d[pr[1]][pr[2]] ELSE ZeroStats

\* C27: when a record call that overlapped no other call, and loaded a
\* usable ledger, writes the file, the file holds the loaded records
\* unchanged except for the call's own pair, whose numApiCalls is the loaded
\* value + 1 and whose totalTokens is the loaded value + the call's tokens.
C27_RecordTouchesOnePair ==
    [][\A p \in Procs :
        (rpc[p] = "truncated" /\ rpc'[p] = "idle" /\ ~overlap) =>
            /\ store'.kind = "object"
            /\ LET new == json_loads(store'.body)
                   old == rbase[p].d
                   target == <<rargs[p].agent_name, rargs[p].model_name>>
               IN  /\ RecordsOf(new) = RecordsOf(old) \cup {target}
                   /\ \A pr \in RecordsOf(old) \ {target} :
                        StatsIn(new, pr) = StatsIn(old, pr)
                   /\ StatsIn(new, target) =
                        [numApiCalls |-> StatsIn(old, target).numApiCalls + 1,
                         totalTokens |-> StatsIn(old, target).totalTokens
                                            + rargs[p].num_tokens]]_vars

C27_Witness ==
    /\ ~overlap
    /\ AllIdle
    /\ Stored(store, <<"CodeGenerator", GEMINI>>) = [calls |-> 1, tokens |-> 2]
    /\ Stored(store, <<"CodeGenerator", "gemini-2.5-pro">>) = [calls |-> 1, tokens |-> 1]
    /\ issued[<<"CodeGenerator", GEMINI>>] = [calls |-> 1, tokens |-> 2]

\* C28: from a usage file without counters, whatever the interleaving of the
\* record calls, a parseable file holds records only for pairs that were
\* recorded, with numApiCalls at most the number of record calls started for
\* the pair and totalTokens at most the sum of their tokens.
C28_NeverOverCounts ==
    (StartedEmpty /\ store.kind = "object") =>
        /\ RecordsOf(json_loads(store.body)) \subseteq Pairs
        /\ \A pr \in Pairs :
            /\ Stored(store, pr).calls <= issued[pr].calls
            /\ Stored(store, pr).tokens <= issued[pr].tokens

C28_Witness ==
    /\ StartedEmpty
    /\ overlap
    /\ AllIdle
    /\ issued[<<"TestGenerator", GEMINI>>] = [calls |-> 2, tokens |-> 4]
    /\ Stored(store, <<"TestGenerator", GEMINI>>) = [calls |-> 1, tokens |-> 2]

====
